---- MODULE Spec2Model ----
(***************************************************************************)
(* Model of the LexoHub document pipeline:                                 *)
(*   - aws/lambda/lambda0-classification/index.py  (classification and     *)
(*     tier routing)                                                       *)
(*   - aws/lambda/tier1-simple-extraction/index.py (asynchronous Textract  *)
(*     job coordinator and metadata merge)                                 *)
(*                                                                         *)
(* Confidences in [0,1] are kept as integers in thousandths (0.85 = 850),  *)
(* so that every comparison of the source is an integer comparison.        *)
(* Python's None is the empty sequence <<>> for optional dictionaries      *)
(* (Some(d) is <<d>>) and the string "None" for optional strings.          *)
(***************************************************************************)
EXTENDS Integers, Sequences, FiniteSets, TLC

VARIABLES
    tIn,        \* arguments of one determine_processing_tier call
    tOut,       \* its return value ("none" before the call)
    cIn,        \* environment outcomes of one classify_document call
    cOut,       \* its return value (<<>> before the call, <<"raise">> on error)
    rIn,        \* classification handed to route_to_tier
    queues,     \* the four tier queues: tier -> sequence of sent messages
    rOut,       \* outcome of the last route_to_tier call
    mItem,      \* update_metadata alone: the persisted item before/after
    mCall,      \* update_metadata alone: the call that was applied
    metadata,   \* METADATA_TABLE: document id -> item (a partial record)
    now,        \* the clock read by datetime.utcnow()
    jobs,       \* Textract: job id -> job (tag, status, result pages)
    notes,      \* completion notifications published so far
    inv,        \* the concurrent lambda invocations of the tier-1 function
    delivered,  \* number of queue records handed to invocations so far
    last,       \* what was observed of the record handled last
    hist,       \* history: per document, writes and status transitions seen
    ev,         \* one invocation of the classification lambda_handler
    app         \* one application of a function of the tier-1 module

vars == <<tIn, tOut, cIn, cOut, rIn, queues, rOut, mItem, mCall,
          metadata, now, jobs, notes, inv, delivered, last, hist, ev, app>>

-----------------------------------------------------------------------------
(* Generic helpers *)

None == <<>>
Some(x) == <<x>>
IsSome(o) == o # <<>>
Get(o) == o[1]

Last(s) == s[Len(s)]

-----------------------------------------------------------------------------
(* lambda0-classification: tier decision policy *)

\* thresholds of determine_processing_tier, confidences in thousandths
CacheThreshold == 850
SimplePages == 3
LargePages == 10
LowConfidence == 500

TIER0_QUEUE_URL == "tier0-queue"
TIER1_QUEUE_URL == "tier1-queue"
TIER2_QUEUE_URL == "tier2-queue"
TIER3_QUEUE_URL == "tier3-queue"

\* determine_processing_tier escalating only documents that are both large
\* and of low confidence (and instead of or in rule 4)
determine_processing_tier_and(template_match, filename_classification, header_analysis) ==
    IF IsSome(template_match) /\ Get(template_match).confidence > CacheThreshold
    THEN 0
    ELSE IF header_analysis.page_count <= SimplePages
            /\ ~header_analysis.has_tables /\ ~header_analysis.has_forms
    THEN 1
    ELSE IF header_analysis.has_tables \/ header_analysis.has_forms
    THEN 2
    ELSE IF header_analysis.page_count > LargePages
            /\ header_analysis.confidence < LowConfidence
    THEN 3
    ELSE 2

\* determine_processing_tier with the structure test moved behind the size
\* test (rules 3 and 4 swapped)
determine_processing_tier_swapped(template_match, filename_classification, header_analysis) ==
    IF IsSome(template_match) /\ Get(template_match).confidence > CacheThreshold
    THEN 0
    ELSE IF header_analysis.page_count <= SimplePages
            /\ ~header_analysis.has_tables /\ ~header_analysis.has_forms
    THEN 1
    ELSE IF header_analysis.page_count > LargePages
            \/ header_analysis.confidence < LowConfidence
    THEN 3
    ELSE 2

\* determine_processing_tier with >= instead of > on the cache confidence
determine_processing_tier_ge(template_match, filename_classification, header_analysis) ==
    IF IsSome(template_match) /\ Get(template_match).confidence >= CacheThreshold
    THEN 0
    ELSE IF header_analysis.page_count <= SimplePages
            /\ ~header_analysis.has_tables /\ ~header_analysis.has_forms
    THEN 1
    ELSE IF header_analysis.has_tables \/ header_analysis.has_forms
    THEN 2
    ELSE IF header_analysis.page_count > LargePages
            \/ header_analysis.confidence < LowConfidence
    THEN 3
    ELSE 2

determine_processing_tier(template_match, filename_classification, header_analysis) ==
    IF IsSome(template_match) /\ Get(template_match).confidence > CacheThreshold
    THEN 0
    ELSE IF header_analysis.page_count <= SimplePages
            /\ ~header_analysis.has_tables /\ ~header_analysis.has_forms
    THEN 1
    ELSE IF header_analysis.has_tables \/ header_analysis.has_forms
    THEN 2
    ELSE IF header_analysis.page_count > LargePages
            \/ header_analysis.confidence < LowConfidence
    THEN 3
    ELSE 2

-----------------------------------------------------------------------------
(* lambda0-classification: fingerprint, cache lookup, heuristic classifier *)

Min(a, b) == IF a < b THEN a ELSE b

\* The files of the model.  A file is what fitz.open() gives for it:
\* blocks of the first page (a block with "lines" is a text block, each line
\* given by the integer top-left corner of its bbox), page count, integer
\* page size, the keywords found in the lowercased first-page text, and
\* whether find_tables()/widgets() return something.
Feature(k, s, a, b) == [k |-> k, s |-> s, a |-> a, b |-> b]

\* sha256 is modelled as an injective tag of the hashed string
sha256(str) == [alg |-> "sha256", of |-> str]

RECURSIVE BlockFeatures(_)
\* index.py:103-107, the loops over text_blocks[:5] and block["lines"]
BlockFeatures(blocks) ==
    IF blocks = <<>> THEN <<>>
    ELSE LET block == Head(blocks)
             own == IF "lines" \in DOMAIN block
                    THEN [i \in 1..Len(block.lines) |->
                            Feature("bbox", "", block.lines[i][1], block.lines[i][2])]
                    ELSE <<>>
         IN own \o BlockFeatures(Tail(blocks))

\* the fallback hashing a constant instead of the file path
generate_structural_hash_const(file_path, doc, hash_error) ==
    IF hash_error
    THEN sha256(<<Feature("path", "", 0, 0)>>)
    ELSE LET structural_features ==
                 IF doc.pages > 0
                 THEN BlockFeatures(SubSeq(doc.blocks, 1, Min(5, Len(doc.blocks))))
                      \o <<Feature("pages", "", doc.pages, 0),
                           Feature("width", "", doc.width, 0),
                           Feature("height", "", doc.height, 0)>>
                 ELSE <<>>
         IN sha256(structural_features)

\* hash_error: fitz.open or a later fitz call raised inside the try block
generate_structural_hash(file_path, doc, hash_error) ==
    IF hash_error
    THEN sha256(<<Feature("path", file_path, 0, 0)>>)
    ELSE LET structural_features ==
                 IF doc.pages > 0
                 THEN BlockFeatures(SubSeq(doc.blocks, 1, Min(5, Len(doc.blocks))))
                      \o <<Feature("pages", "", doc.pages, 0),
                           Feature("width", "", doc.width, 0),
                           Feature("height", "", doc.height, 0)>>
                 ELSE <<>>
         IN sha256(structural_features)

\* TEMPLATE_CACHE_TABLE.query: the items with the given hash, most recent
\* first (ScanIndexForward=False), limited to one.  The table is a sequence
\* of items in descending recency.
RECURSIVE QueryCache(_, _)
QueryCache(table, structural_hash) ==
    IF table = <<>> THEN <<>>
    ELSE IF Head(table).structuralHash = structural_hash
    THEN <<Head(table)>>
    ELSE QueryCache(Tail(table), structural_hash)

\* check_template_cache propagating the backend error
check_template_cache_raising(structural_hash, table, cache_error) ==
    IF cache_error THEN [raised |-> TRUE, value |-> None]
    ELSE LET Items == QueryCache(table, structural_hash) IN
         IF Items # <<>>
         THEN LET template == Items[1] IN
              [raised |-> FALSE,
               value |-> Some([template_id |-> template.structuralHash,
                      confidence |-> IF "confidence" \in DOMAIN template
                                     THEN template.confidence ELSE 0,
                      document_type |-> IF "documentType" \in DOMAIN template
                                        THEN template.documentType ELSE "unknown"])]
         ELSE [raised |-> FALSE, value |-> None]

\* the result is [raised, value]; the source never raises (except: return None)
check_template_cache(structural_hash, table, cache_error) ==
    IF cache_error THEN [raised |-> FALSE, value |-> None]
    ELSE LET Items == QueryCache(table, structural_hash) IN
         IF Items # <<>>
         THEN LET template == Items[1] IN
              [raised |-> FALSE,
               value |-> Some([template_id |-> template.structuralHash,
                      confidence |-> IF "confidence" \in DOMAIN template
                                     THEN template.confidence ELSE 0,
                      document_type |-> IF "documentType" \in DOMAIN template
                                        THEN template.documentType ELSE "unknown"])]
         ELSE [raised |-> FALSE, value |-> None]

\* FILENAME_PATTERNS in dictionary order; each regular expression is given
\* by the sample filenames (lowercased) it finds a match in.
FILENAME_PATTERNS ==
    << [doc_type |-> "invoice",        found_in |-> {"invoice_12.pdf"}],
       [doc_type |-> "contract",       found_in |-> {"contract-a1.pdf"}],
       [doc_type |-> "court_filing",   found_in |-> {}],
       [doc_type |-> "correspondence", found_in |-> {"memorandum.pdf"}],
       [doc_type |-> "pleading",       found_in |-> {"memorandum.pdf"}] >>

RECURSIVE FirstPattern(_, _)
FirstPattern(patterns, filename) ==
    IF patterns = <<>> THEN "None"
    ELSE IF filename \in Head(patterns).found_in THEN Head(patterns).doc_type
    ELSE FirstPattern(Tail(patterns), filename)

classify_by_filename(key) == FirstPattern(FILENAME_PATTERNS, Last(key))

InvoiceKeywords == {"invoice", "bill to", "amount due"}
ContractKeywords == {"agreement", "contract", "parties"}
CourtKeywords == {"court", "plaintiff", "defendant"}

\* the analysis returned from the except branch
FallbackAnalysis ==
    [page_count |-> 0, has_tables |-> FALSE, has_forms |-> FALSE,
     confidence |-> 300, type |-> "unknown"]

\* header_error: fitz.open or a later fitz call raised inside the try block
analyze_document_header(file_path, doc, header_error) ==
    IF header_error THEN FallbackAnalysis
    ELSE LET kind == IF doc.pages = 0 THEN "unknown"
                     ELSE IF doc.text \cap InvoiceKeywords # {} THEN "invoice"
                     ELSE IF doc.text \cap ContractKeywords # {} THEN "contract"
                     ELSE IF doc.text \cap CourtKeywords # {} THEN "court_filing"
                     ELSE "unknown"
         IN [page_count |-> doc.pages,
             has_tables |-> doc.pages > 0 /\ doc.tables,
             has_forms  |-> doc.pages > 0 /\ doc.forms,
             confidence |-> CASE kind = "invoice" -> 700
                              [] kind = "contract" -> 700
                              [] kind = "court_filing" -> 800
                              [] OTHER -> 600,
             type |-> kind]

\* e: what the collaborators do during the call (S3 download, the file as
\* seen by fitz, the cache table and whether its query fails)
classify_document(bucket, key, e) ==
    LET local_path == "/tmp/" \o Last(key) IN
    IF e.download_error THEN [raised |-> TRUE]
    ELSE
    LET structural_hash == generate_structural_hash(local_path, e.doc, e.hash_error)
        lookup == check_template_cache(structural_hash, e.table, e.cache_error)
        template_match == lookup.value
    IN
    IF lookup.raised THEN [raised |-> TRUE]
    ELSE
    IF IsSome(template_match) /\ Get(template_match).confidence > CacheThreshold
    THEN [raised |-> FALSE,
          result |-> [bucket |-> bucket, key |-> key, tier |-> 0,
                      structural_hash |-> structural_hash,
                      template_id |-> Get(template_match).template_id,
                      confidence |-> Get(template_match).confidence,
                      document_type |-> Get(template_match).document_type]]
    ELSE
    LET filename_classification == classify_by_filename(key)
        header_analysis == analyze_document_header(local_path, e.doc, e.header_error)
        tier == determine_processing_tier(template_match, filename_classification,
                                          header_analysis)
    IN  [raised |-> FALSE,
         result |-> [bucket |-> bucket, key |-> key, tier |-> tier,
                     structural_hash |-> structural_hash,
                     document_type |-> IF filename_classification # "None"
                                       THEN filename_classification
                                       ELSE header_analysis.type,
                     confidence |-> header_analysis.confidence,
                     metadata |-> [page_count |-> header_analysis.page_count,
                                   has_tables |-> header_analysis.has_tables,
                                   has_forms |-> header_analysis.has_forms]]]


-----------------------------------------------------------------------------
(* Input spaces of the classification functions *)

MaxPages == 20          \* page counts 0..MaxPages

\* confidences (thousandths) around the two thresholds
CacheConfs == {0, 500, 850, 851, 900, 1000}
HeaderConfs == {0, 300, 499, 500, 600, 900, 1000}

TemplateMatches ==
    {None} \cup { Some([template_id |-> "h", confidence |-> c,
                        document_type |-> "invoice"]) : c \in CacheConfs }

HeaderAnalyses ==
    [page_count : 0..MaxPages, has_tables : BOOLEAN, has_forms : BOOLEAN,
     confidence : HeaderConfs, type : {"unknown"}]

TierInputs ==
    [template_match : TemplateMatches,
     filename_classification : {"None", "invoice"},
     header_analysis : HeaderAnalyses]

\* object keys, as the sequence of their '/'-separated segments
Keys == { <<"a", "scan.pdf">>, <<"b", "scan.pdf">>, <<"in", "invoice_12.pdf">>,
          <<"memorandum.pdf">> }

TextBlocks == { <<>>,
                << [image |-> TRUE], [lines |-> << <<72, 90>>, <<72, 120>> >>] >> }

Docs == [pages : {0, 2, 5, 15}, blocks : TextBlocks, width : {612}, height : {792},
         text : { {}, {"invoice", "court"}, {"parties"} },
         tables : BOOLEAN, forms : BOOLEAN]

CacheItem(h, c) == [structuralHash |-> h, confidence |-> c, documentType |-> "invoice"]

OtherHash == sha256(<<Feature("pages", "", 99, 0)>>)

\* cache tables seen by a lookup of hash h: empty, one entry, an entry
\* without a confidence attribute, an older entry behind a newer one, and
\* entries of another fingerprint
CacheTables(h) ==
    { <<>>, <<CacheItem(OtherHash, 1000)>>,
      <<[structuralHash |-> h, documentType |-> "invoice"]>>,
      <<CacheItem(h, 900), CacheItem(h, 500)>>,
      <<CacheItem(h, 500), CacheItem(h, 900)>> }
    \cup { <<CacheItem(h, c)>> : c \in {0, 850, 851, 1000} }
    \cup { <<CacheItem(OtherHash, 1000), CacheItem(h, c)>> : c \in {850, 851} }

ClassifyInputs ==
    UNION { UNION { UNION {
        [bucket : {"bk"}, key : {key}, download_error : BOOLEAN, doc : {doc},
         hash_error : {hash_error}, header_error : BOOLEAN,
         table : CacheTables(generate_structural_hash("/tmp/" \o Last(key), doc, hash_error)),
         cache_error : BOOLEAN]
        : hash_error \in BOOLEAN } : doc \in Docs } : key \in Keys \ {<<"b", "scan.pdf">>} }


-----------------------------------------------------------------------------
(* lambda0-classification: tier router *)

MaxSent == 2            \* messages sent to the tier queues in one behaviour

QueueUrls == {TIER0_QUEUE_URL, TIER1_QUEUE_URL, TIER2_QUEUE_URL, TIER3_QUEUE_URL}

\* json.dumps / json.loads of a dictionary
json_dumps(d) == [json |-> d]
json_loads(str) == str.json

\* the dictionary queue_urls of route_to_tier
queue_urls ==
    (0 :> TIER0_QUEUE_URL) @@ (1 :> TIER1_QUEUE_URL) @@
    (2 :> TIER2_QUEUE_URL) @@ (3 :> TIER3_QUEUE_URL)

\* dict.get(k, default)
DictGet(d, k, default) == IF k \in DOMAIN d THEN d[k] ELSE default

\* route_to_tier with the tier-3 queue as the default destination
route_to_tier_default3(q, classification, send_error) ==
    LET tier == classification.tier
        queue_url == DictGet(queue_urls, tier, TIER3_QUEUE_URL)
        message == [MessageBody |-> json_dumps(classification),
                    MessageAttributes |->
                        [Tier |-> tier, DocumentType |-> classification.document_type]]
    IN  IF send_error THEN [raised |-> TRUE, queues |-> q]
        ELSE [raised |-> FALSE,
              queues |-> [q EXCEPT ![queue_url] = Append(@, message)]]

\* q: the queues before the call; send_error: sqs_client.send_message raises.
\* The result is the queues after the call and whether the call raised.
route_to_tier(q, classification, send_error) ==
    LET tier == classification.tier
        queue_url == DictGet(queue_urls, tier, TIER2_QUEUE_URL)
        message == [MessageBody |-> json_dumps(classification),
                    MessageAttributes |->
                        [Tier |-> tier, DocumentType |-> classification.document_type]]
    IN  IF send_error THEN [raised |-> TRUE, queues |-> q]
        ELSE [raised |-> FALSE,
              queues |-> [q EXCEPT ![queue_url] = Append(@, message)]]

Sent(q) == Len(q[TIER0_QUEUE_URL]) + Len(q[TIER1_QUEUE_URL])
           + Len(q[TIER2_QUEUE_URL]) + Len(q[TIER3_QUEUE_URL])

\* tier numbers handed to route_to_tier, in and out of range
RouteTiers == {-1, 0, 1, 2, 3, 4, 7}

RouteInputs ==
    [bucket : {"bk"}, key : {<<"a", "scan.pdf">>, <<"in", "invoice_12.pdf">>},
     tier : RouteTiers, document_type : {"unknown"}]


-----------------------------------------------------------------------------
(* lambda0-classification: lambda_handler *)

MaxRecords == 2         \* records of one intake event

\* 'eventbridge' in source, for the source strings of the model
ContainsEventbridge(source) == source \in {"lexohub.eventbridge"}

S3Record(bucket, key) ==
    [s3 |-> [bucket |-> [name |-> bucket], object |-> [key |-> key]]]

BridgeRecord(bucket, key) ==
    [source |-> "lexohub.eventbridge",
     detail |-> [bucket |-> [name |-> bucket], object |-> [key |-> key]]]

\* the head of the loop body: bucket and key of a record; a record without
\* the subscripted entries raises KeyError
RecordRef(record) ==
    IF ContainsEventbridge(DictGet(record, "source", ""))
    THEN IF "detail" \in DOMAIN record
         THEN [raised |-> FALSE, bucket |-> record.detail.bucket.name,
               key |-> record.detail.object.key]
         ELSE [raised |-> TRUE]
    ELSE IF "s3" \in DOMAIN record
         THEN [raised |-> FALSE, bucket |-> record.s3.bucket.name,
               key |-> record.s3.object.key]
         ELSE [raised |-> TRUE]

\* the loop body routing the classification result twice
handle_record_twice(q, record, e, send_error) ==
    LET ref == RecordRef(record) IN
    IF ref.raised THEN [raised |-> TRUE, queues |-> q, at |-> "record"]
    ELSE
    LET c == classify_document(ref.bucket, ref.key, e) IN
    IF c.raised THEN [raised |-> TRUE, queues |-> q, at |-> "classify"]
    ELSE
    LET r == route_to_tier(q, c.result, send_error) IN
    IF r.raised THEN [raised |-> TRUE, queues |-> r.queues, at |-> "route"]
    ELSE [raised |-> FALSE,
          queues |-> route_to_tier(r.queues, c.result, FALSE).queues, at |-> ""]

\* the loop body of lambda_handler for one record: classify_document, then
\* route_to_tier; any exception is printed and re-raised.  `at` names the
\* call that raised.
handle_record(q, record, e, send_error) ==
    LET ref == RecordRef(record) IN
    IF ref.raised THEN [raised |-> TRUE, queues |-> q, at |-> "record"]
    ELSE
    LET c == classify_document(ref.bucket, ref.key, e) IN
    IF c.raised THEN [raised |-> TRUE, queues |-> q, at |-> "classify"]
    ELSE
    LET r == route_to_tier(q, c.result, send_error) IN
    [raised |-> r.raised, queues |-> r.queues,
     at |-> IF r.raised THEN "route" ELSE ""]

\* the records of the model: two objects through either trigger, and a
\* record that is neither an S3 nor an EventBridge notification
IntakeKeys == { <<"a", "scan.pdf">>, <<"in", "invoice_12.pdf">> }

IntakeRecords ==
    { S3Record("bk", key) : key \in IntakeKeys }
    \cup { BridgeRecord("bk", key) : key \in IntakeKeys }
    \cup { [source |-> "aws.sns"] }

IntakeEvents ==
    UNION { [1..n -> IntakeRecords] : n \in 0..MaxRecords }

\* the files an intake record can point at: 2, 5 (with tables) and 15 pages
IntakeDocs ==
    { doc \in Docs : /\ doc.blocks = <<>> /\ doc.text = {} /\ ~doc.forms
                     /\ doc.pages # 0 /\ (doc.tables <=> doc.pages = 5) }

\* what the collaborators do while a record of the given key is classified
IntakeEnvs(key) ==
    UNION {
        [bucket : {"bk"}, key : {key}, download_error : BOOLEAN, doc : {doc},
         hash_error : {FALSE}, header_error : {FALSE},
         table : { <<>>,
                   <<CacheItem(generate_structural_hash("/tmp/" \o Last(key),
                                                        doc, FALSE), 900)>> },
         cache_error : BOOLEAN]
        : doc \in IntakeDocs }

\* no invocation of the classification function
NoEvent == [pc |-> "none", records |-> <<>>, handled |-> 0, at |-> ""]


-----------------------------------------------------------------------------
(* tier1-simple-extraction: update_metadata *)

MaxClock == 1           \* datetime.utcnow() returns 0..MaxClock

\* an item of METADATA_TABLE is a function from attribute names to values;
\* a document id without an item has the empty one
EmptyItem == [a \in {} |-> 0]

\* the attribute each keyword argument of update_metadata is stored under
\* (the chain of "if '<kw>' in kwargs" tests)
AttrOf ==
    [job_id |-> "jobId", tier |-> "processingTier",
     classification |-> "classification", extracted_text |-> "extractedText",
     confidence |-> "confidence", error |-> "errorMessage",
     completion_time |-> "completionTime"]

\* ExpressionAttributeValues by attribute: what the SET expression assigns
Assignments(status, kwargs, updated_at) ==
    LET used == DOMAIN kwargs \cap DOMAIN AttrOf
        KwOf(a) == CHOOSE k \in used : AttrOf[k] = a
    IN  [a \in {"status", "updatedAt"} \cup { AttrOf[k] : k \in used } |->
            IF a = "status" THEN status
            ELSE IF a = "updatedAt" THEN updated_at
            ELSE kwargs[KwOf(a)]]

\* METADATA_TABLE.update_item with a SET expression: creates the item when
\* missing, assigns the named attributes and keeps every other attribute
update_item(item, document_id, assignments) ==
    LET keyed == IF "documentId" \in DOMAIN item THEN item
                 ELSE [a \in {"documentId"} |-> document_id]
    IN  [a \in DOMAIN keyed \cup DOMAIN assignments |->
            IF a \in DOMAIN assignments THEN assignments[a] ELSE keyed[a]]

\* update_metadata replacing the whole item (put_item instead of update_item)
update_metadata_put(table, document_id, status, kwargs, updated_at, store_error) ==
    IF store_error THEN [raised |-> TRUE, table |-> table]
    ELSE [raised |-> FALSE,
          table |-> [table EXCEPT ![document_id] =
                        update_item(EmptyItem, document_id,
                                    Assignments(status, kwargs, updated_at))]]

\* table: METADATA_TABLE before the call; updated_at: the clock value read;
\* store_error: update_item raises (the except branch re-raises).
\* The result is the table after the call and whether the call raised.
update_metadata(table, document_id, status, kwargs, updated_at, store_error) ==
    IF store_error THEN [raised |-> TRUE, table |-> table]
    ELSE [raised |-> FALSE,
          table |-> [table EXCEPT ![document_id] =
                        update_item(@, document_id,
                                    Assignments(status, kwargs, updated_at))]]

DocIds == {"scan.pdf", "doc-7"}

Statuses == {"PROCESSING", "COMPLETED", "FAILED"}

\* values a caller can pass for each keyword argument
KwValues ==
    [job_id |-> 9, tier |-> 3, classification |-> [key |-> <<"new">>],
     extracted_text |-> "new", confidence |-> 9999, error |-> "new error",
     completion_time |-> MaxClock]

MergeCalls ==
    { [document_id |-> "scan.pdf", status |-> st,
       kwargs |-> [k \in ks |-> KwValues[k]], store_error |-> err]
      : st \in Statuses, ks \in SUBSET (DOMAIN AttrOf), err \in BOOLEAN }

\* persisted items a call can meet: none, and one per state of the job
MergeItems ==
    { EmptyItem,
      [documentId |-> "scan.pdf", status |-> "PROCESSING", updatedAt |-> 0,
       jobId |-> 1, processingTier |-> 1, classification |-> [key |-> <<"old">>]],
      [documentId |-> "scan.pdf", status |-> "COMPLETED", updatedAt |-> 1,
       jobId |-> 1, processingTier |-> 1, classification |-> [key |-> <<"old">>],
       extractedText |-> "old", confidence |-> 8250, completionTime |-> 1],
      [documentId |-> "scan.pdf", status |-> "FAILED", updatedAt |-> 0,
       errorMessage |-> "old error"] }


-----------------------------------------------------------------------------
(* tier1-simple-extraction: Textract results *)

\* textract_client.get_document_text_detection: the page of the job's
\* results named by the token (no token: the first page), with the token of
\* the next page unless it is the last.  A token is the index of its page.
\* A job without results (a failed one) has a response without Blocks.
get_document_text_detection(pages, next_token) ==
    LET i == IF next_token = 0 THEN 1 ELSE next_token IN
    IF i < Len(pages)
    THEN [JobStatus |-> "SUCCEEDED", Blocks |-> pages[i], NextToken |-> i + 1]
    ELSE IF i = Len(pages)
    THEN [JobStatus |-> "SUCCEEDED", Blocks |-> pages[i]]
    ELSE [JobStatus |-> "FAILED"]

RECURSIVE ResultsLoop(_, _, _, _, _)
\* the "while True" loop of get_textract_results; fail_at = n makes the n-th
\* request raise (0: none does); requests are the tokens requested so far
ResultsLoop(pages, next_token, fail_at, results, requests) ==
    IF fail_at = Len(requests) + 1
    THEN [raised |-> TRUE, results |-> results,
          requests |-> Append(requests, next_token)]
    ELSE LET response == get_document_text_detection(pages, next_token)
             results2 == results \o DictGet(response, "Blocks", <<>>)
             next_token2 == DictGet(response, "NextToken", 0)
         IN  IF next_token2 = 0
             THEN [raised |-> FALSE, results |-> results2,
                   requests |-> Append(requests, next_token)]
             ELSE ResultsLoop(pages, next_token2, fail_at, results2,
                              Append(requests, next_token))

\* get_textract_results making the first request only
get_textract_results_first(pages, fail_at) ==
    IF fail_at = 1
    THEN [raised |-> TRUE, results |-> <<>>, requests |-> <<0>>]
    ELSE [raised |-> FALSE,
          results |-> DictGet(get_document_text_detection(pages, 0), "Blocks", <<>>),
          requests |-> <<0>>]

get_textract_results(pages, fail_at) == ResultsLoop(pages, 0, fail_at, <<>>, <<>>)

RECURSIVE JoinLines(_)
\* '\n'.join(lines)
JoinLines(lines) ==
    IF lines = <<>> THEN ""
    ELSE IF Len(lines) = 1 THEN lines[1]
    ELSE lines[1] \o "\n" \o JoinLines(Tail(lines))

RECURSIVE LineTexts(_)
\* the list "lines" built by the loop of extract_text_from_results
LineTexts(blocks) ==
    IF blocks = <<>> THEN <<>>
    ELSE IF Head(blocks).BlockType = "LINE"
    THEN <<DictGet(Head(blocks), "Text", "")>> \o LineTexts(Tail(blocks))
    ELSE LineTexts(Tail(blocks))

extract_text_from_results(blocks) == JoinLines(LineTexts(blocks))

RECURSIVE Confidences(_)
\* the list "confidences" built by the loop of calculate_confidence_score
Confidences(blocks) ==
    IF blocks = <<>> THEN <<>>
    ELSE IF Head(blocks).BlockType \in {"LINE", "WORD"}
    THEN <<DictGet(Head(blocks), "Confidence", 0)>> \o Confidences(Tail(blocks))
    ELSE Confidences(Tail(blocks))

RECURSIVE Sum(_)
Sum(seq) == IF seq = <<>> THEN 0 ELSE Head(seq) + Sum(Tail(seq))

\* round(x, 4) of x = num / (100 * den), in ten-thousandths: the nearest
\* integer to 100 * num / den, a tie going to the even one
Round4(num, den) ==
    LET q == (100 * num) \div den
        r == (100 * num) % den
    IN  IF 2 * r < den THEN q
        ELSE IF 2 * r > den THEN q + 1
        ELSE IF q % 2 = 0 THEN q ELSE q + 1

\* calculate_confidence_score averaging over all blocks of the list
calculate_confidence_score_all(blocks) ==
    IF blocks = <<>> THEN 0
    ELSE LET confidences == Confidences(blocks) IN
         IF confidences = <<>> THEN 0
         ELSE Round4(Sum(confidences), Len(blocks))

\* the result is in ten-thousandths (0.825 = 8250)
calculate_confidence_score(blocks) ==
    IF blocks = <<>> THEN 0
    ELSE LET confidences == Confidences(blocks) IN
         IF confidences = <<>> THEN 0
         ELSE Round4(Sum(confidences), Len(confidences))

\* handle_textract_completion persisting the pages fetched before a failure
handle_textract_completion_partial(table, message, pages, fail_at, completion_time, updated_at, store_error) ==
    LET job_id == message.JobId
        status == message.Status
    IN  IF status # "SUCCEEDED"
        THEN [raised |-> FALSE, table |-> table, requests |-> <<>>, wrote |-> ""]
        ELSE
        LET fetch == get_textract_results(pages, fail_at)
            document_id == DictGet(message, "JobTag", job_id)
            upd == update_metadata(table, document_id, "COMPLETED",
                       [extracted_text |-> extract_text_from_results(fetch.results),
                        confidence |-> calculate_confidence_score(fetch.results),
                        tier |-> 1, completion_time |-> completion_time],
                       updated_at, store_error)
        IN  [raised |-> fetch.raised \/ upd.raised, table |-> upd.table,
             requests |-> fetch.requests,
             wrote |-> IF upd.raised THEN "" ELSE document_id]

\* handle_textract_completion handling a failed job like a successful one
handle_textract_completion_always(table, message, pages, fail_at, completion_time, updated_at, store_error) ==
    LET job_id == message.JobId
        fetch == get_textract_results(pages, fail_at)
    IN  IF fetch.raised
        THEN [raised |-> TRUE, table |-> table, requests |-> fetch.requests, wrote |-> ""]
        ELSE
        LET document_id == DictGet(message, "JobTag", job_id)
            upd == update_metadata(table, document_id, "COMPLETED",
                       [extracted_text |-> extract_text_from_results(fetch.results),
                        confidence |-> calculate_confidence_score(fetch.results),
                        tier |-> 1, completion_time |-> completion_time],
                       updated_at, store_error)
        IN  [raised |-> upd.raised, table |-> upd.table, requests |-> fetch.requests,
             wrote |-> IF upd.raised THEN "" ELSE document_id]

\* pages: the result pages Textract holds for the job; fail_at: the request
\* of get_textract_results that raises (0: none); completion_time, updated_at:
\* the two clock values read; store_error: update_item raises.
\* The result: whether the call raised, the table after it, the tokens
\* requested, and the document id written ("" when nothing was written).
handle_textract_completion(table, message, pages, fail_at, completion_time, updated_at, store_error) ==
    LET job_id == message.JobId
        status == message.Status
    IN  IF status # "SUCCEEDED"
        THEN [raised |-> FALSE, table |-> table, requests |-> <<>>, wrote |-> ""]
        ELSE
        LET fetch == get_textract_results(pages, fail_at) IN
        IF fetch.raised
        THEN [raised |-> TRUE, table |-> table, requests |-> fetch.requests, wrote |-> ""]
        ELSE
        LET document_id == DictGet(message, "JobTag", job_id)
            upd == update_metadata(table, document_id, "COMPLETED",
                       [extracted_text |-> extract_text_from_results(fetch.results),
                        confidence |-> calculate_confidence_score(fetch.results),
                        tier |-> 1, completion_time |-> completion_time],
                       updated_at, store_error)
        IN  [raised |-> upd.raised, table |-> upd.table, requests |-> fetch.requests,
             wrote |-> IF upd.raised THEN "" ELSE document_id]

\* the document id start_textract_job works under
StartDocumentId(classification) ==
    DictGet(classification, "document_id", Last(classification.key))

\* the except branch swallowing the exception
StartFailedSwallowed(table, document_id, error, updated_at, store_error) ==
    LET upd == update_metadata(table, document_id, "FAILED", [error |-> error],
                               updated_at, store_error)
    IN  [raised |-> upd.raised, table |-> upd.table,
         wrote |-> IF upd.raised THEN "" ELSE document_id]

\* the except branch of start_textract_job: persist FAILED with the message
\* of the exception, then re-raise
StartFailed(table, document_id, error, updated_at, store_error) ==
    LET upd == update_metadata(table, document_id, "FAILED", [error |-> error],
                               updated_at, store_error)
    IN  [raised |-> TRUE, table |-> upd.table,
         wrote |-> IF upd.raised THEN "" ELSE document_id]

\* the update_metadata call of the try block of start_textract_job
StartProcessing(table, document_id, job_id, classification, updated_at, store_error) ==
    update_metadata(table, document_id, "PROCESSING",
                    [job_id |-> job_id, tier |-> 1, classification |-> classification],
                    updated_at, store_error)


-----------------------------------------------------------------------------
(* The state machines *)

NumWorkers == 2         \* concurrent invocations of the tier-1 function
MaxJobs == 2            \* Textract jobs started in one behaviour
MaxDeliveries == 3      \* queue records delivered in one behaviour
MaxBatch == 2           \* records of one invocation event

Workers == 1..NumWorkers

\* classification results arriving on the tier-1 queue: two objects whose
\* keys end in the same filename, and one carrying its own document id
StartMsgs ==
    { [bucket |-> "bk", key |-> <<"a", "scan.pdf">>, tier |-> 1,
       document_type |-> "unknown"],
      [bucket |-> "bk", key |-> <<"b", "scan.pdf">>, tier |-> 2,
       document_type |-> "unknown"],
      [bucket |-> "bk", key |-> <<"in", "invoice_12.pdf">>, tier |-> 1,
       document_type |-> "invoice", document_id |-> "doc-7"] }

Block(type, text, confidence) ==
    [BlockType |-> type, Text |-> text, Confidence |-> confidence]

\* result pages Textract can hold for a finished job
ResultSets ==
    { << <<Block("LINE", "a", 100), Block("WORD", "a", 80)>> >>,
      << <<[BlockType |-> "PAGE"], Block("LINE", "a", 60)>>,
         <<Block("LINE", "b", 90)>> >> }

MaxResultPages == 3     \* pages of the results of one job

\* the block lists one result page can hold
PageBlocks ==
    { <<>>,
      <<[BlockType |-> "PAGE"], Block("LINE", "a", 60)>>,
      <<Block("LINE", "b", 90), Block("WORD", "b", 80), Block("LINE", "c", 100)>>,
      <<Block("WORD", "d", 70)>> }

PageSets == UNION { [1..n -> PageBlocks] : n \in 1..MaxResultPages }

MaxBlocks == 4          \* blocks handed to calculate_confidence_score

\* blocks as Textract returns them: LINE and WORD blocks carry a confidence
\* in 0..100, a PAGE block carries none
ScoreBlocks ==
    { Block("LINE", "a", c) : c \in {0, 60, 90, 100} }
    \cup { Block("WORD", "a", c) : c \in {33, 80} }
    \cup { [BlockType |-> "PAGE"] }

BlockLists == UNION { [1..n -> ScoreBlocks] : n \in 0..MaxBlocks }

\* an invocation slot that runs nothing
IdleWorker == [pc |-> "idle", records |-> <<>>, job_id |-> 0]

\* what is observed of a handled record: its number in the order of
\* handling, the worker, the message, whether an exception left
\* lambda_handler, the job id Textract returned (0: none), the tokens
\* get_textract_results requested, and whether the last update_item call
\* made for the record raised
NoRecord ==
    [n |-> 0, worker |-> 0, message |-> [none |-> TRUE], raised |-> FALSE,
     job_id |-> 0, requests |-> <<>>, store_error |-> FALSE]

NoHistory == [terminated |-> 0, by |-> 0]

\* the variables of the parts a specification does not exercise
TierIdle == tIn = <<>> /\ tOut = -1
ClassifyIdle == cIn = <<>> /\ cOut = None
RouteIdle ==
    /\ rIn = <<>> /\ rOut = "none"
    /\ queues = [u \in QueueUrls |-> <<>>]
MergeIdle == mItem = EmptyItem /\ mCall = None
IntakeIdle == ev = NoEvent
PureIdle == app = None
CoordIdle ==
    /\ metadata = [d \in DocIds |-> EmptyItem]
    /\ now = 0
    /\ jobs = <<>>
    /\ notes = {}
    /\ inv = [w \in Workers |-> IdleWorker]
    /\ delivered = 0
    /\ last = NoRecord
    /\ hist = [d \in DocIds |-> NoHistory]

tierVars == <<tIn, tOut>>
classifyVars == <<cIn, cOut>>
routeVars == <<rIn, queues, rOut>>
mergeVars == <<mItem, mCall>>
coordVars == <<metadata, now, jobs, notes, inv, delivered, last, hist>>
intakeVars == <<ev>>
pureVars == <<app>>

(* determine_processing_tier applied to one input *)
InitTier ==
    /\ tIn \in TierInputs
    /\ tOut = -1
    /\ ClassifyIdle /\ RouteIdle /\ MergeIdle /\ CoordIdle /\ IntakeIdle /\ PureIdle

ApplyTier ==
    /\ tOut = -1
    /\ tOut' = determine_processing_tier(tIn.template_match,
                   tIn.filename_classification, tIn.header_analysis)
    /\ UNCHANGED <<tIn, classifyVars, routeVars, mergeVars, coordVars, intakeVars, pureVars>>

NextTier == ApplyTier

SpecTier == InitTier /\ [][NextTier]_vars

(* classify_document applied to one document and environment *)
InitClassify ==
    /\ cIn \in ClassifyInputs
    /\ cOut = None
    /\ TierIdle /\ RouteIdle /\ MergeIdle /\ CoordIdle /\ IntakeIdle /\ PureIdle

ApplyClassify ==
    /\ cOut = None
    /\ cOut' = Some(classify_document(cIn.bucket, cIn.key, cIn))
    /\ UNCHANGED <<cIn, tierVars, routeVars, mergeVars, coordVars, intakeVars, pureVars>>

NextClassify == ApplyClassify

SpecClassify == InitClassify /\ [][NextClassify]_vars

(* route_to_tier called with arbitrary classifications *)
InitRoute ==
    TierIdle /\ ClassifyIdle /\ RouteIdle /\ MergeIdle /\ CoordIdle /\ IntakeIdle /\ PureIdle

Route ==
    /\ Sent(queues) < MaxSent
    /\ \E classification \in RouteInputs, send_error \in BOOLEAN :
         LET r == route_to_tier(queues, classification, send_error) IN
         /\ rIn' = classification
         /\ rOut' = IF r.raised THEN "raised" ELSE "sent"
         /\ queues' = r.queues
    /\ UNCHANGED <<tierVars, classifyVars, mergeVars, coordVars, intakeVars, pureVars>>

NextRoute == Route

SpecRoute == InitRoute /\ [][NextRoute]_vars

(* update_metadata applied to one persisted item *)
InitMerge ==
    /\ mItem \in MergeItems
    /\ mCall = None
    /\ metadata = [d \in DocIds |-> IF d = "scan.pdf" THEN mItem ELSE EmptyItem]
    /\ now = 0 /\ jobs = <<>> /\ notes = {}
    /\ inv = [w \in Workers |-> IdleWorker]
    /\ delivered = 0
    /\ last = NoRecord
    /\ hist = [d \in DocIds |-> NoHistory]
    /\ TierIdle /\ ClassifyIdle /\ RouteIdle /\ IntakeIdle /\ PureIdle

ApplyMerge ==
    /\ mCall = None
    /\ \E call \in MergeCalls, updated_at \in now..MaxClock :
         LET upd == update_metadata(metadata, call.document_id, call.status,
                                    call.kwargs, updated_at, call.store_error)
         IN  /\ mCall' = Some(call)
             /\ metadata' = upd.table
             /\ now' = updated_at
    /\ UNCHANGED <<mItem, jobs, notes, inv, delivered, last, hist, tierVars, classifyVars, routeVars, intakeVars, pureVars>>

NextMerge == ApplyMerge

SpecMerge == InitMerge /\ [][NextMerge]_vars


(* lambda_handler of the classification function invoked with one event *)
InitIntake ==
    /\ TierIdle /\ ClassifyIdle /\ RouteIdle /\ MergeIdle /\ CoordIdle /\ PureIdle
    /\ \E records \in IntakeEvents :
         ev = [pc |-> "loop", records |-> records, handled |-> 0, at |-> ""]

\* one iteration of the loop over event['Records']
HandleRecord ==
    /\ ev.pc = "loop" /\ ev.records # <<>>
    /\ LET record == Head(ev.records)
           ref == RecordRef(record)
       IN  \E e \in IF ref.raised THEN {<<>>} ELSE IntakeEnvs(ref.key),
              send_error \in BOOLEAN :
             LET r == handle_record(queues, record, e, send_error) IN
             /\ queues' = r.queues
             /\ ev' = [pc |-> IF r.raised THEN "raised" ELSE "loop",
                       records |-> Tail(ev.records),
                       handled |-> ev.handled + 1, at |-> r.at]
    /\ UNCHANGED <<rIn, rOut, tierVars, classifyVars, mergeVars, coordVars, pureVars>>

\* the loop is over: return statusCode 200
Return ==
    /\ ev.pc = "loop" /\ ev.records = <<>>
    /\ ev' = [ev EXCEPT !.pc = "returned"]
    /\ UNCHANGED <<routeVars, tierVars, classifyVars, mergeVars, coordVars, pureVars>>

NextIntake == HandleRecord \/ Return

SpecIntake == InitIntake /\ [][NextIntake]_vars


(* get_textract_results and extract_text_from_results applied to the result
   pages of one successful job *)
InitFetch ==
    /\ TierIdle /\ ClassifyIdle /\ RouteIdle /\ MergeIdle /\ CoordIdle /\ IntakeIdle
    /\ \E pages \in PageSets : app = Some([fn |-> "fetch", pages |-> pages])

ApplyFetch ==
    /\ IsSome(app) /\ Get(app).fn = "fetch" /\ "fetch" \notin DOMAIN Get(app)
    /\ LET fetch == get_textract_results(Get(app).pages, 0) IN
       app' = Some([fn |-> "fetch", pages |-> Get(app).pages, fetch |-> fetch,
                     text |-> extract_text_from_results(fetch.results)])
    /\ UNCHANGED <<tierVars, classifyVars, routeVars, mergeVars, coordVars, intakeVars>>

NextFetch == ApplyFetch

SpecFetch == InitFetch /\ [][NextFetch]_vars


(* calculate_confidence_score applied to one list of blocks *)
InitScore ==
    /\ TierIdle /\ ClassifyIdle /\ RouteIdle /\ MergeIdle /\ CoordIdle /\ IntakeIdle
    /\ \E blocks \in BlockLists : app = Some([fn |-> "score", blocks |-> blocks])

ApplyScore ==
    /\ IsSome(app) /\ Get(app).fn = "score" /\ "score" \notin DOMAIN Get(app)
    /\ app' = Some([fn |-> "score", blocks |-> Get(app).blocks,
                    score |-> calculate_confidence_score(Get(app).blocks)])
    /\ UNCHANGED <<tierVars, classifyVars, routeVars, mergeVars, coordVars, intakeVars>>

NextScore == ApplyScore

SpecScore == InitScore /\ [][NextScore]_vars


(* generate_structural_hash applied, as classify_document applies it, to
   the downloaded files of two objects *)
HashDocs ==
    { doc \in Docs : /\ doc.pages \in {0, 2} /\ doc.text = {}
                     /\ ~doc.tables /\ ~doc.forms }

HashInputs == [key : Keys, doc : HashDocs, hash_error : BOOLEAN]

InitHash ==
    /\ TierIdle /\ ClassifyIdle /\ RouteIdle /\ MergeIdle /\ CoordIdle /\ IntakeIdle
    /\ \E first \in HashInputs, second \in HashInputs :
         app = Some([fn |-> "hash", files |-> <<first, second>>])

ApplyHash ==
    /\ IsSome(app) /\ Get(app).fn = "hash" /\ "hashes" \notin DOMAIN Get(app)
    /\ LET files == Get(app).files IN
       app' = Some([fn |-> "hash", files |-> files,
                    hashes |-> [i \in 1..2 |->
                        generate_structural_hash("/tmp/" \o Last(files[i].key),
                                                 files[i].doc, files[i].hash_error)]])
    /\ UNCHANGED <<tierVars, classifyVars, routeVars, mergeVars, coordVars, intakeVars>>

NextHash == ApplyHash

SpecHash == InitHash /\ [][NextHash]_vars


(* The tier-1 function: concurrent invocations of lambda_handler, Textract
   and its completion notifications *)
InitCoord ==
    TierIdle /\ ClassifyIdle /\ RouteIdle /\ MergeIdle /\ CoordIdle /\ IntakeIdle /\ PureIdle

\* a clock read: the clock does not go back
Reads(t) == { u \in {t, t + 1} : u <= MaxClock }

\* messages the queue can deliver, any number of times: classification
\* results and the completion notifications published so far
Deliverable == StartMsgs \cup notes

\* the events of at most `most` records over a set of messages
EventsOf(messages, most) ==
    UNION { { [i \in 1..n |-> [body |-> json_dumps(batch[i])]] :
              batch \in [1..n -> messages] }
            : n \in 1..most }

\* the events lambda_handler can be invoked with
Events == EventsOf(Deliverable, Min(MaxBatch, MaxDeliveries - delivered))

\* the records worker w has to handle: the rest of its event when it is in
\* the loop of lambda_handler, any event when the service invokes it (the
\* service uses the first free slot)
Records(w) ==
    IF inv[w].pc = "dispatch" THEN {inv[w].records}
    ELSE IF inv[w].pc = "idle" /\ \A v \in Workers : v < w => inv[v].pc # "idle"
    THEN Events
    ELSE {}

Delivered(w, records) ==
    IF inv[w].pc = "idle" THEN delivered + Len(records) ELSE delivered

\* the record at the head of the event is done: an exception ends the
\* invocation, otherwise the loop of lambda_handler moves to the next record
\* or returns
RecordDone(records, raised) ==
    IF raised \/ Len(records) = 1
    THEN IdleWorker
    ELSE [pc |-> "dispatch", records |-> Tail(records), job_id |-> 0]

Observed(w, message, raised, job_id, requests, store_error) ==
    [n |-> last.n + 1, worker |-> w, message |-> message, raised |-> raised,
     job_id |-> job_id, requests |-> requests, store_error |-> store_error]

StatusOf(item) == DictGet(item, "status", "none")

\* history of a successful write of status st to document d; by is the job
\* whose completion wrote it (0 for a write of start_textract_job)
Written(d, st, by) ==
    [hist EXCEPT ![d] =
        [terminated |-> IF StatusOf(metadata[d]) = "PROCESSING"
                           /\ st \in {"COMPLETED", "FAILED"}
                        THEN Min(2, @.terminated + 1) ELSE @.terminated,
         by |-> by]]

\* lambda_handler, 'JobId' in message_body: handle_textract_completion
HandleCompletion(w) ==
    /\ \E records \in Records(w) :
         LET message == json_loads(Head(records).body) IN
         /\ "JobId" \in DOMAIN message
         /\ LET pages == jobs[message.JobId].pages IN
            \E fail_at \in 0..Len(pages), completion_time \in Reads(now),
               store_error \in BOOLEAN :
            \E updated_at \in Reads(completion_time) :
              LET r == handle_textract_completion(metadata, message, pages, fail_at,
                           completion_time, updated_at, store_error)
              IN  /\ metadata' = r.table
                  /\ now' = IF r.wrote = "" THEN now ELSE updated_at
                  /\ hist' = IF r.wrote = "" THEN hist
                             ELSE Written(r.wrote, "COMPLETED", message.JobId)
                  /\ inv' = [inv EXCEPT ![w] = RecordDone(records, r.raised)]
                  /\ last' = Observed(w, message, r.raised, 0, r.requests,
                                 message.Status = "SUCCEEDED" /\ fail_at = 0
                                     /\ store_error)
         /\ delivered' = Delivered(w, records)
    /\ UNCHANGED <<jobs, notes>>
    /\ UNCHANGED <<tierVars, classifyVars, routeVars, mergeVars, intakeVars, pureVars>>

\* lambda_handler, otherwise: start_textract_job up to the return of
\* start_document_text_detection.  Either Textract accepts the job, or the
\* call raises and the except branch runs.
StartCall(w) ==
    /\ \E records \in Records(w) :
         LET classification == json_loads(Head(records).body)
             document_id == StartDocumentId(classification)
         IN
         /\ "JobId" \notin DOMAIN classification
         /\ delivered' = Delivered(w, records)
         /\ \/ /\ Len(jobs) < MaxJobs
               /\ jobs' = Append(jobs, [tag |-> document_id, status |-> "IN_PROGRESS",
                                        pages |-> <<>>])
               /\ inv' = [inv EXCEPT ![w] = [pc |-> "write", records |-> records,
                                             job_id |-> Len(jobs) + 1]]
               /\ UNCHANGED <<metadata, now, hist, last>>
            \/ \E updated_at \in Reads(now), store_error \in BOOLEAN :
                 LET r == StartFailed(metadata, document_id, "textract error",
                                      updated_at, store_error)
                 IN  /\ metadata' = r.table
                     /\ now' = IF r.wrote = "" THEN now ELSE updated_at
                     /\ hist' = IF r.wrote = "" THEN hist
                                ELSE Written(r.wrote, "FAILED", 0)
                     /\ inv' = [inv EXCEPT ![w] = RecordDone(records, r.raised)]
                     /\ last' = Observed(w, classification, r.raised, 0, <<>>,
                                         store_error)
                     /\ UNCHANGED jobs
    /\ UNCHANGED notes
    /\ UNCHANGED <<tierVars, classifyVars, routeVars, mergeVars, intakeVars, pureVars>>

\* start_textract_job after Textract returned a job id: the PROCESSING
\* update, and the except branch when that update raises
StartWrite(w) ==
    /\ inv[w].pc = "write"
    /\ LET records == inv[w].records
           classification == json_loads(Head(records).body)
           document_id == StartDocumentId(classification)
       IN  \E updated_at \in Reads(now), store_error \in BOOLEAN :
             LET upd == StartProcessing(metadata, document_id, inv[w].job_id,
                                        classification, updated_at, store_error)
             IN  IF ~upd.raised
                 THEN /\ metadata' = upd.table
                      /\ now' = updated_at
                      /\ hist' = Written(document_id, "PROCESSING", 0)
                      /\ inv' = [inv EXCEPT ![w] = RecordDone(records, FALSE)]
                      /\ last' = Observed(w, classification, FALSE, inv[w].job_id,
                                          <<>>, FALSE)
                 ELSE \E updated_at2 \in Reads(now), store_error2 \in BOOLEAN :
                        LET r == StartFailed(metadata, document_id, "metadata error",
                                             updated_at2, store_error2)
                        IN  /\ metadata' = r.table
                            /\ now' = IF r.wrote = "" THEN now ELSE updated_at2
                            /\ hist' = IF r.wrote = "" THEN hist
                                       ELSE Written(r.wrote, "FAILED", 0)
                            /\ inv' = [inv EXCEPT ![w] = RecordDone(records, r.raised)]
                            /\ last' = Observed(w, classification, r.raised,
                                                inv[w].job_id, <<>>, store_error2)
    /\ UNCHANGED <<jobs, notes, delivered>>
    /\ UNCHANGED <<tierVars, classifyVars, routeVars, mergeVars, intakeVars, pureVars>>

\* Textract finishes a job and publishes its completion notification
JobFinishes(j) ==
    /\ jobs[j].status = "IN_PROGRESS"
    /\ \E outcome \in {[status |-> "FAILED", pages |-> <<>>]}
                      \cup [status : {"SUCCEEDED"}, pages : ResultSets] :
         /\ jobs' = [jobs EXCEPT ![j].status = outcome.status,
                                 ![j].pages = outcome.pages]
         /\ notes' = notes \cup {[JobId |-> j, Status |-> outcome.status,
                                  JobTag |-> jobs[j].tag]}
    /\ UNCHANGED <<metadata, now, inv, delivered, last, hist>>
    /\ UNCHANGED <<tierVars, classifyVars, routeVars, mergeVars, intakeVars, pureVars>>

NextCoord ==
    \/ \E w \in Workers : HandleCompletion(w)
    \/ \E w \in Workers : StartCall(w)
    \/ \E w \in Workers : StartWrite(w)
    \/ \E j \in 1..Len(jobs) : JobFinishes(j)

SpecCoord == InitCoord /\ [][NextCoord]_vars

(* One invocation of lambda_handler of the tier-1 function, on any event,
   against any table and any Textract job an earlier invocation left *)

Job(tag, status, pages) == [tag |-> tag, status |-> status, pages |-> pages]

Note(j, job) == [JobId |-> j, Status |-> job.status, JobTag |-> job.tag]

\* nothing was handled before
Fresh == [metadata |-> [d \in DocIds |-> EmptyItem], jobs |-> <<>>, notes |-> {}]

\* start_textract_job started job 1 for classification result m
Running(m) ==
    [metadata |-> StartProcessing(Fresh.metadata, StartDocumentId(m), 1, m, 0,
                                  FALSE).table,
     jobs |-> <<Job(StartDocumentId(m), "IN_PROGRESS", <<>>)>>,
     notes |-> {}]

\* ... and Textract finished the job and published its notification
Finished(m, status, pages) ==
    LET job == Job(StartDocumentId(m), status, pages) IN
    [Running(m) EXCEPT !.jobs = <<job>>, !.notes = {Note(1, job)}]

\* ... and handle_textract_completion handled the notification
Completed(m, pages) ==
    LET pre == Finished(m, "SUCCEEDED", pages) IN
    [pre EXCEPT !.metadata =
        handle_textract_completion(@, Note(1, pre.jobs[1]), pages, 0, 0, 0,
                                   FALSE).table]

\* start_textract_job could not start a job for classification result m
Rejected(m) ==
    [Fresh EXCEPT !.metadata =
        StartFailed(@, StartDocumentId(m), "textract error", 0, FALSE).table]

Prehistories ==
    {Fresh}
    \cup { Running(m) : m \in StartMsgs }
    \cup { Finished(m, "FAILED", <<>>) : m \in StartMsgs }
    \cup { Finished(m, "SUCCEEDED", pages) : m \in StartMsgs, pages \in ResultSets }
    \cup { Completed(m, pages) : m \in StartMsgs, pages \in ResultSets }
    \cup { Rejected(m) : m \in StartMsgs }

InitInvoke ==
    /\ TierIdle /\ ClassifyIdle /\ RouteIdle /\ MergeIdle /\ IntakeIdle /\ PureIdle
    /\ \E pre \in Prehistories :
         /\ metadata = pre.metadata /\ jobs = pre.jobs /\ notes = pre.notes
         /\ \E records \in EventsOf(StartMsgs \cup pre.notes, MaxBatch) :
              /\ inv = [w \in Workers |->
                           IF w = 1
                           THEN [pc |-> "dispatch", records |-> records, job_id |-> 0]
                           ELSE IdleWorker]
              /\ delivered = Len(records)
    /\ now = 0
    /\ last = NoRecord
    /\ hist = [d \in DocIds |-> NoHistory]

Busy(w) == inv[w].pc # "idle"

NextInvoke ==
    \/ \E w \in Workers : Busy(w) /\ HandleCompletion(w)
    \/ \E w \in Workers : Busy(w) /\ StartCall(w)
    \/ \E w \in Workers : Busy(w) /\ StartWrite(w)

SpecInvoke == InitInvoke /\ [][NextInvoke]_vars

-----------------------------------------------------------------------------
(* Properties of the classification function (SpecClassify) *)

Classified == IsSome(cOut) /\ ~Get(cOut).raised
ClassifiedTier == Get(cOut).result.tier

\* the fingerprint the cache is asked for
LookupHash == generate_structural_hash("/tmp/" \o Last(cIn.key), cIn.doc, cIn.hash_error)

\* the lookup did not fail and the most recent entry recorded for the
\* fingerprint carries a confidence above 0.85
CacheEntryFound ==
    /\ ~cIn.cache_error
    /\ \E i \in 1..Len(cIn.table) :
         /\ cIn.table[i].structuralHash = LookupHash
         /\ \A j \in 1..(i - 1) : cIn.table[j].structuralHash # LookupHash
         /\ "confidence" \in DOMAIN cIn.table[i]
         /\ cIn.table[i].confidence > 850

\* C3: whatever the cache lookup outcome, the filename and the content
\* analysis, a returned classification has a tier in {0,1,2,3}, and the tier
\* is 0 exactly when a cache entry with confidence > 0.85 was found.
C3_TierRange ==
    Classified =>
        /\ ClassifiedTier \in {0, 1, 2, 3}
        /\ (ClassifiedTier = 0) <=> CacheEntryFound

\* a tier-0 result from an entry of confidence 0.851 behind another
\* fingerprint's entry
C3_Witness ==
    /\ Classified /\ ClassifiedTier = 0
    /\ Len(cIn.table) = 2 /\ cIn.table[2].confidence = 851

\* C5: when content analysis fails (the fallback analysis is returned) and no
\* cache entry with confidence > 0.85 exists, the document gets tier 3.
C5_FallbackTier3 ==
    (Classified /\ cIn.header_error /\ ~CacheEntryFound) => ClassifiedTier = 3

\* the document type the heuristic classifier gives: the filename pattern,
\* or else the type found by the content analysis
HeuristicType ==
    LET by_name == classify_by_filename(cIn.key) IN
    IF by_name # "None" THEN by_name
    ELSE analyze_document_header("/tmp/" \o Last(cIn.key), cIn.doc,
                                 cIn.header_error).type

\* C12: when the cache query raises, check_template_cache returns no match
\* without raising, and classify_document (the file having been downloaded)
\* returns the heuristic classification, with a tier in {1,2,3}.
C12_CacheOutageDegrades ==
    (IsSome(cOut) /\ cIn.cache_error /\ ~cIn.download_error) =>
        /\ check_template_cache(LookupHash, cIn.table, TRUE)
               = [raised |-> FALSE, value |-> None]
        /\ Classified
        /\ ClassifiedTier \in {1, 2, 3}
        /\ "template_id" \notin DOMAIN Get(cOut).result
        /\ Get(cOut).result.document_type = HeuristicType

\* the query raises while the table holds an entry of confidence 0.9 for the
\* fingerprint: the 15-page document is classified tier 3
C12_Witness ==
    /\ Classified /\ cIn.cache_error /\ ClassifiedTier = 3
    /\ cIn.table # <<>> /\ cIn.table[1].structuralHash = LookupHash
    /\ "confidence" \in DOMAIN cIn.table[1] /\ cIn.table[1].confidence = 900

-----------------------------------------------------------------------------
(* Properties of the fingerprint (SpecHash) *)

Hashed == IsSome(app) /\ "hashes" \in DOMAIN Get(app)

\* feature extraction fails for the file: fitz raises, or it has no page
ExtractionFails(file) == file.hash_error \/ file.doc.pages = 0

\* C15: when feature extraction fails for two documents with different
\* keys, their fingerprints differ (each is derived from its document's key).
C15_FallbackFingerprintByKey ==
    Hashed =>
        LET files == Get(app).files IN
        (/\ ExtractionFails(files[1]) /\ ExtractionFails(files[2])
         /\ files[1].key # files[2].key)
            => Get(app).hashes[1] # Get(app).hashes[2]

-----------------------------------------------------------------------------
(* Properties of the tier decision policy (SpecTier) *)

TierDone == tOut # -1

CacheHit ==
    /\ IsSome(tIn.template_match)
    /\ Get(tIn.template_match).confidence > 850

\* the ordered decision list of the specification: <<condition, tier>>
DecisionList ==
    LET h == tIn.header_analysis IN
    << <<CacheHit, 0>>,
       <<h.page_count <= 3 /\ ~h.has_tables /\ ~h.has_forms, 1>>,
       <<h.has_tables \/ h.has_forms, 2>>,
       <<h.page_count > 10 \/ h.confidence < 500, 3>>,
       <<TRUE, 2>> >>

\* the tier of the first satisfied rule
FirstSatisfied ==
    LET i == CHOOSE k \in 1..Len(DecisionList) :
                 /\ DecisionList[k][1]
                 /\ \A j \in 1..(k - 1) : ~DecisionList[j][1]
    IN  DecisionList[i][2]

\* C4: determine_processing_tier returns the tier of the first satisfied
\* rule of the decision list; cache confidence 0.9 with 20 pages gives tier 0;
\* 15 pages, no tables, no forms, confidence 0.9, no cache hit gives tier 3.
C4_DecisionList ==
    TierDone =>
        /\ tOut = FirstSatisfied
        /\ (/\ IsSome(tIn.template_match)
            /\ Get(tIn.template_match).confidence = 900
            /\ tIn.header_analysis.page_count = 20) => tOut = 0
        /\ (/\ tIn.template_match = None
            /\ tIn.header_analysis.page_count = 15
            /\ ~tIn.header_analysis.has_tables /\ ~tIn.header_analysis.has_forms
            /\ tIn.header_analysis.confidence = 900) => tOut = 3

C4_Witness ==
    /\ TierDone /\ tOut = 3
    /\ tIn.template_match = None
    /\ tIn.header_analysis.page_count = 15
    /\ tIn.header_analysis.confidence = 900

\* C6 as stated: without a cache hit, page count > 10 or confidence < 0.5
\* gives tier 3 whatever has-tables and has-forms are.
C6_EscalatesRegardless ==
    (/\ TierDone /\ ~CacheHit
     /\ \/ tIn.header_analysis.page_count > 10
        \/ tIn.header_analysis.confidence < 500) => tOut = 3

\* C6 amended: without a cache hit, a document with neither tables nor forms
\* gets tier 3 when its page count is > 10, or when its page count is > 3 and
\* its confidence is < 0.5.
C6_EscalatesUnstructured ==
    (/\ TierDone /\ ~CacheHit
     /\ ~tIn.header_analysis.has_tables /\ ~tIn.header_analysis.has_forms
     /\ \/ tIn.header_analysis.page_count > 10
        \/ /\ tIn.header_analysis.page_count > 3
           /\ tIn.header_analysis.confidence < 500) => tOut = 3

C6_Witness ==
    /\ TierDone /\ tOut = 3 /\ ~CacheHit
    /\ tIn.header_analysis.page_count = 5
    /\ tIn.header_analysis.confidence = 300
    /\ ~tIn.header_analysis.has_tables /\ ~tIn.header_analysis.has_forms

-----------------------------------------------------------------------------
(* Properties of the tier router (SpecRoute) *)

\* the queue bound to a tier, tier 2's for a number that is not a tier
BoundQueue(t) ==
    CASE t = 0 -> TIER0_QUEUE_URL
      [] t = 1 -> TIER1_QUEUE_URL
      [] t = 3 -> TIER3_QUEUE_URL
      [] OTHER -> TIER2_QUEUE_URL

\* C10: a call of route_to_tier that sends appends the classification to the
\* queue bound to its tier when the tier is in {0,1,2,3}, to the tier-2 queue
\* for any other tier number, and to no other queue; an unknown tier number
\* does not make the call fail.
C10_RouteToBoundQueue ==
    [][ (rOut' = "sent" /\ Sent(queues') # Sent(queues)) =>
          /\ \A u \in QueueUrls \ {BoundQueue(rIn'.tier)} : queues'[u] = queues[u]
          /\ Len(queues'[BoundQueue(rIn'.tier)]) = Len(queues[BoundQueue(rIn'.tier)]) + 1
          /\ json_loads(Last(queues'[BoundQueue(rIn'.tier)]).MessageBody) = rIn'
      ]_vars

C10_Witness ==
    /\ rOut = "sent" /\ rIn.tier = 7
    /\ Len(queues[TIER2_QUEUE_URL]) = 1
    /\ json_loads(queues[TIER2_QUEUE_URL][1].MessageBody) = rIn

-----------------------------------------------------------------------------
(* Properties of update_metadata (SpecMerge) *)

\* the attributes a call names in its SET expression: status and updatedAt
\* always, and one attribute per keyword argument supplied
SuppliedAttrs(call) ==
    {"status", "updatedAt"}
    \cup (IF "job_id" \in DOMAIN call.kwargs THEN {"jobId"} ELSE {})
    \cup (IF "tier" \in DOMAIN call.kwargs THEN {"processingTier"} ELSE {})
    \cup (IF "classification" \in DOMAIN call.kwargs THEN {"classification"} ELSE {})
    \cup (IF "extracted_text" \in DOMAIN call.kwargs THEN {"extractedText"} ELSE {})
    \cup (IF "confidence" \in DOMAIN call.kwargs THEN {"confidence"} ELSE {})
    \cup (IF "error" \in DOMAIN call.kwargs THEN {"errorMessage"} ELSE {})
    \cup (IF "completion_time" \in DOMAIN call.kwargs THEN {"completionTime"} ELSE {})

-----------------------------------------------------------------------------
(* Properties of the classification lambda_handler (SpecIntake) *)

\* a step that handles one record of the event
RecordHandled == ev'.handled = ev.handled + 1

\* the queues differ by exactly one message, appended to one queue, and the
\* message is the classification of the object the handled record names
OneEnqueued ==
    \E u \in QueueUrls :
      /\ Len(queues'[u]) = Len(queues[u]) + 1
      /\ SubSeq(queues'[u], 1, Len(queues[u])) = queues[u]
      /\ json_loads(Last(queues'[u]).MessageBody).key
             = RecordRef(Head(ev.records)).key
      /\ \A o \in QueueUrls \ {u} : queues'[o] = queues[o]

\* C11: every record handled by the classification lambda_handler enqueues
\* exactly one message, on one queue, when classification and routing
\* succeed, and none when a call made for the record raises; a record never
\* produces two messages.
C11_OneEnqueuePerRecord ==
    [][ RecordHandled =>
            /\ IF ev'.at = "" THEN OneEnqueued ELSE queues' = queues
            /\ Sent(queues') <= ev'.handled
      ]_vars

\* the first record was enqueued and the classification of the second raised
C11_Witness ==
    /\ ev.handled = 2 /\ ev.at = "classify" /\ ev.pc = "raised"
    /\ Sent(queues) = 1

-----------------------------------------------------------------------------
(* Properties of the result fetch (SpecFetch) *)

Fetched == IsSome(app) /\ "fetch" \in DOMAIN Get(app)

\* the texts of the LINE blocks of pages i.. in page order, then block order
RECURSIVE LinesFrom(_, _)
LinesFrom(pages, i) ==
    IF i > Len(pages) THEN <<>>
    ELSE LET IsLine(b) == b.BlockType = "LINE"
             picked == SelectSeq(pages[i], IsLine)
         IN  [k \in 1..Len(picked) |-> picked[k].Text] \o LinesFrom(pages, i + 1)

\* C13: for a successful job of any number of result pages,
\* get_textract_results returns after requesting every page exactly once (the
\* first without a token, each next one by the token of the page before),
\* and the extracted text is the LINE texts of all pages joined in page order,
\* then block order.
C13_FetchAllPagesOnce ==
    Fetched =>
        LET c == Get(app) IN
        /\ ~c.fetch.raised
        /\ Len(c.fetch.requests) = Len(c.pages)
        /\ \A i \in 1..Len(c.pages) :
             c.fetch.requests[i] = IF i = 1 THEN 0 ELSE i
        /\ c.text = JoinLines(LinesFrom(c.pages, 1))

\* three pages, LINE blocks on the second and third: "a" before "b" and "c"
C13_Witness ==
    /\ Fetched
    /\ Len(Get(app).pages) = 3
    /\ Get(app).fetch.requests = <<0, 2, 3>>
    /\ Get(app).text = "a\nb\nc"

-----------------------------------------------------------------------------
(* Properties of the confidence aggregation (SpecScore) *)

Scored == IsSome(app) /\ "score" \in DOMAIN Get(app)

\* the LINE and WORD blocks of the list
Scoring(blocks) ==
    LET Counts(b) == b.BlockType \in {"LINE", "WORD"} IN SelectSeq(blocks, Counts)

RECURSIVE Total(_, _)
\* the sum of the confidences of blocks i..
Total(blocks, i) ==
    IF i > Len(blocks) THEN 0 ELSE blocks[i].Confidence + Total(blocks, i + 1)

\* C14: calculate_confidence_score returns the mean of the confidences of the
\* LINE and WORD blocks divided by 100 and rounded to 4 decimals (the result s
\* in ten-thousandths is the integer nearest to 100 * sum / n), within [0,1];
\* [100, 80, 60, 90] gives 0.825; a list without LINE or WORD block gives 0.0.
C14_MeanConfidence ==
    Scored =>
        LET scoring == Scoring(Get(app).blocks)
            n == Len(scoring)
            s == Get(app).score
        IN  /\ s \in 0..10000
            /\ n = 0 => s = 0
            /\ n > 0 => /\ 2 * (100 * Total(scoring, 1) - s * n) <= n
                        /\ 2 * (s * n - 100 * Total(scoring, 1)) <= n
            /\ [i \in 1..n |-> scoring[i].Confidence] = <<100, 80, 60, 90>>
                   => s = 8250

C14_Witness ==
    /\ Scored
    /\ Len(Get(app).blocks) = 4
    /\ [i \in 1..4 |-> Get(app).blocks[i].BlockType] = <<"LINE", "WORD", "LINE", "LINE">>
    /\ [i \in 1..4 |-> Get(app).blocks[i].Confidence] = <<100, 80, 60, 90>>
    /\ Get(app).score = 8250

\* a list of PAGE blocks only scores 0.0
C14_WitnessNoScore ==
    /\ Scored /\ Get(app).blocks = <<[BlockType |-> "PAGE"]>> /\ Get(app).score = 0

-----------------------------------------------------------------------------
(* Properties of the extraction job coordinator (SpecCoord) *)

Terminal == {"COMPLETED", "FAILED"}

\* a step that finishes the handling of a classification result
StartDone ==
    /\ last'.n # last.n
    /\ "JobId" \notin DOMAIN last'.message

\* a step that finishes the handling of a completion notification
CompletionDone ==
    /\ last'.n # last.n
    /\ "JobId" \in DOMAIN last'.message

\* C1: for every document id, whatever intake messages and completion
\* notifications are handled (duplicates included), the persisted status goes
\* at most once from PROCESSING to a terminal status, and a terminal status
\* is never followed by PROCESSING.
C1_SingleTransition ==
    [][ \A d \in DocIds :
          /\ StatusOf(metadata[d]) \in Terminal => StatusOf(metadata'[d]) # "PROCESSING"
          /\ hist'[d].terminated <= 1
      ]_vars

\* C2: handling again the SUCCEEDED notification of the job whose handling
\* produced the current record of a document leaves that record identical,
\* field for field.
C2_DuplicateCompletionIdempotent ==
    [][ \A d \in DocIds :
          (hist[d].by # 0 /\ hist'[d].by = hist[d].by) => metadata'[d] = metadata[d]
      ]_vars

\* the invocation that handled the last record has left lambda_handler
Ended == inv'[last'.worker].pc = "idle"

\* the invocation that handled the last record is where a normal return of
\* the handler leaves it: at the next record of its event, or done
GoesOn ==
    LET w == last'.worker
        left == IF inv[w].pc = "idle" THEN delivered' - delivered - 1
                ELSE Len(inv[w].records) - 1
    IN  IF left > 0
        THEN inv'[w].pc = "dispatch" /\ Len(inv'[w].records) = left
        ELSE inv'[w].pc = "idle"

\* C8: when start_document_text_detection fails, the invocation ends with the
\* exception propagated out of lambda_handler (no later record is handled),
\* and the document's record has status FAILED and the error message; only
\* when the metadata store rejects that write is the table left as it was.
C8_StartFailurePersistedAndRaised ==
    [][ (StartDone /\ last'.job_id = 0) =>
            LET d == StartDocumentId(last'.message) IN
            /\ last'.raised
            /\ Ended
            /\ IF last'.store_error
               THEN metadata' = metadata
               ELSE /\ StatusOf(metadata'[d]) = "FAILED"
                    /\ metadata'[d].errorMessage = "textract error"
                    /\ \A o \in DocIds \ {d} : metadata'[o] = metadata[o]
      ]_vars

\* the first record of an event of two is a classification result that
\* Textract rejects: FAILED is persisted and the second record is not handled
C8_Witness ==
    /\ "key" \in DOMAIN last.message
    /\ last.job_id = 0 /\ last.raised /\ ~last.store_error
    /\ last.n = 1 /\ delivered = 2 /\ inv[last.worker].pc = "idle"
    /\ StatusOf(metadata[StartDocumentId(last.message)]) = "FAILED"
    /\ metadata[StartDocumentId(last.message)].errorMessage = "textract error"

\* C9: handling a completion notification whose status is not SUCCEEDED
\* changes no metadata record, requests no result page, and returns without
\* raising (the invocation goes on to its next record or returns).
C9_NonSuccessIgnored ==
    [][ (CompletionDone /\ last'.message.Status # "SUCCEEDED") =>
            /\ metadata' = metadata
            /\ last'.requests = <<>>
            /\ ~last'.raised
            /\ GoesOn
      ]_vars

\* the notification of a failed job was handled while the document's record
\* is PROCESSING, and the invocation is at its next record
C9_Witness ==
    /\ "JobId" \in DOMAIN last.message
    /\ last.message.Status = "FAILED"
    /\ ~last.raised /\ last.requests = <<>>
    /\ inv[last.worker].pc = "dispatch"
    /\ StatusOf(metadata[last.message.JobTag]) = "PROCESSING"

\* the result pages of the job a handled notification names
NotifiedPages == jobs[last'.message.JobId].pages

RECURSIVE AllBlocks(_)
AllBlocks(pages) == IF pages = <<>> THEN <<>> ELSE Head(pages) \o AllBlocks(Tail(pages))

\* C16: the handling of a SUCCEEDED notification either raises, ends the
\* invocation and leaves every metadata record as it was, or returns with
\* the record COMPLETED and holding the text of all result pages; it raises
\* whenever a request for a result page failed, and a record never holds the
\* text of only some of the pages.
C16_NothingPartiallyPersisted ==
    [][ (CompletionDone /\ last'.message.Status = "SUCCEEDED") =>
            LET d == last'.message.JobTag IN
            /\ Len(last'.requests) < Len(NotifiedPages) => last'.raised
            /\ IF last'.raised
               THEN metadata' = metadata /\ Ended
               ELSE /\ StatusOf(metadata'[d]) = "COMPLETED"
                    /\ metadata'[d].extractedText
                           = extract_text_from_results(AllBlocks(NotifiedPages))
      ]_vars

\* the request for the second result page failed: the handler raised and
\* the record is still PROCESSING, without text
C16_Witness ==
    /\ "JobId" \in DOMAIN last.message
    /\ last.message.Status = "SUCCEEDED"
    /\ last.requests = <<0, 2>> /\ last.raised /\ ~last.store_error
    /\ StatusOf(metadata[last.message.JobTag]) = "PROCESSING"
    /\ "extractedText" \notin DOMAIN metadata[last.message.JobTag]

\* a step in which handle_textract_completion writes COMPLETED
CompletedWritten ==
    /\ CompletionDone
    /\ last'.message.Status = "SUCCEEDED"
    /\ ~last'.raised

\* C17: the COMPLETED write for a job never happens while the
\* start_textract_job invocation that created the job has not yet made its
\* PROCESSING write.
C17_CompletionAfterStart ==
    [][ CompletedWritten =>
            \A w \in Workers :
                ~(inv[w].pc = "write" /\ inv[w].job_id = last'.message.JobId)
      ]_vars

\* a step in which start_textract_job, having got a job id from Textract,
\* ends
StartedDone == StartDone /\ last'.job_id # 0

\* C18: start_textract_job invocations for objects with different keys never
\* write the same metadata record: a record that holds the classification
\* of one object is not written for an object with another key.
C18_DistinctDocumentsDistinctRecords ==
    [][ (StartedDone /\ ~last'.raised) =>
            LET d == StartDocumentId(last'.message) IN
            "classification" \in DOMAIN metadata[d]
                => metadata[d].classification.key = last'.message.key
      ]_vars

\* C19: after start_textract_job succeeds for a classification result, the
\* document's record has status PROCESSING, the job id Textract returned,
\* the tier of the classification result, and the classification result.
C19_StartPersistsSnapshot ==
    [][ (StartedDone /\ ~last'.raised) =>
            LET item == metadata'[StartDocumentId(last'.message)] IN
            /\ StatusOf(item) = "PROCESSING"
            /\ item.jobId = last'.job_id
            /\ item.processingTier = last'.message.tier
            /\ item.classification = last'.message
      ]_vars

\* C20: a start_textract_job invocation to which Textract returned a job id
\* never writes status FAILED, also when its PROCESSING write fails.
C20_FailedOnlyWhenNotAccepted ==
    [][ StartedDone =>
            LET d == StartDocumentId(last'.message) IN
            ~(metadata'[d] # metadata[d] /\ StatusOf(metadata'[d]) = "FAILED")
      ]_vars

====
